---- MODULE Spec2Model ----
(***************************************************************************)
(* A model of travel_guide.py: the session state of the Streamlit script,  *)
(* the model-fallback loop of get_travel_plan_markdown, the main action    *)
(* with its PDF export, and the line parser markdown_to_flowables.         *)
(*                                                                         *)
(* Python strings that the code strips, slices or splits are sequences of  *)
(* one-character strings; opaque strings (model names, dict keys) are TLA+ *)
(* strings.  The bullet character U+2022 is written "U+2022".              *)
(***************************************************************************)
EXTENDS Integers, Sequences, FiniteSets, TLC

VARIABLES
    session,      \* st.session_state: a dict, key -> value
    pc,           \* position of the script run: idle / request / wait / returned / pdf
    idx,          \* position of the for-loop over FALLBACK_MODELS (1-based)
    last_error,   \* local of get_travel_plan_markdown
    retval,       \* value returned by get_travel_plan_markdown
    outcomes,     \* what the provider answers to each candidate in this cycle
    requests,     \* completion requests issued in this cycle, in issue order
    inflight,     \* requests issued and not yet completed
    uncaught,     \* exception that left the script run, or None
    screen,       \* what the main action rendered in the last script run
    displayed,    \* the plan text rendered by st.markdown in the last run
    download,     \* none / offered (download button rendered) / pdf_error
    plan_source,  \* history: the model whose answer is the stored travel_plan
    diag,         \* result panel of the diagnostics self-test
    md_text,      \* argument of markdown_to_flowables
    lines,        \* md_text.splitlines()
    i,            \* loop index of markdown_to_flowables (0-based, as in the code)
    flow,         \* the flowables emitted so far
    mdpc          \* position of markdown_to_flowables: start / loop / done

genVars == <<session, pc, idx, last_error, retval, outcomes, requests, inflight,
             uncaught, screen, displayed, download, diag, plan_source>>
mdVars == <<md_text, lines, i, flow, mdpc>>
vars == <<session, pc, idx, last_error, retval, outcomes, requests, inflight,
          uncaught, screen, displayed, download, diag, plan_source,
          md_text, lines, i, flow, mdpc>>

None == "None"

(***************************************************************************)
(* Python string methods, on sequences of characters.                      *)
(***************************************************************************)
NL == "\n"
SP == " "
TAB == "\t"

isspace(c) == c \in {SP, TAB, NL}

RECURSIVE lstrip(_)
lstrip(s) == IF s # <<>> /\ isspace(Head(s)) THEN lstrip(Tail(s)) ELSE s

RECURSIVE rstrip(_)
rstrip(s) ==
    IF s # <<>> /\ isspace(s[Len(s)]) THEN rstrip(SubSeq(s, 1, Len(s) - 1)) ELSE s

strip(s) == rstrip(lstrip(s))

startswith(s, p) == Len(s) >= Len(p) /\ SubSeq(s, 1, Len(p)) = p

\* s[n:] of Python (n is 0-based)
slice_from(s, n) == SubSeq(s, n + 1, Len(s))

RECURSIVE join(_, _)
join(sep, parts) ==
    IF parts = <<>> THEN <<>>
    ELSE IF Len(parts) = 1 THEN parts[1]
    ELSE parts[1] \o sep \o join(sep, Tail(parts))

RECURSIVE splitlines(_)
splitlines(s) ==
    IF s = <<>> THEN <<>>
    ELSE LET brk == {k \in 1..Len(s) : s[k] = NL}
         IN IF brk = {} THEN <<s>>
            ELSE LET k == CHOOSE b \in brk : \A c \in brk : b <= c
                 IN <<SubSeq(s, 1, k - 1)>> \o splitlines(SubSeq(s, k + 1, Len(s)))

(***************************************************************************)
(* Session state (a dict).                                                 *)
(***************************************************************************)
FORM_KEYS == <<"destination", "num_days", "special_interests", "guardrails">>

FormKeySet == {FORM_KEYS[k] : k \in 1..Len(FORM_KEYS)}

Put(d, key, v) == [x \in DOMAIN d \cup {key} |-> IF x = key THEN v ELSE d[x]]

Pop(d, key) == [x \in DOMAIN d \ {key} |-> d[x]]

Get(d, key, default) == IF key \in DOMAIN d THEN d[key] ELSE default

init_form_state == [x \in FormKeySet \cup {"travel_plan"} |-> <<>>]

\* reset_all_callback without the pop of last_model_used
reset_all_callback_keeps_model(d) ==
    LET cleared == [x \in DOMAIN d |->
                      IF x \in FormKeySet \cup {"travel_plan"} THEN <<>> ELSE d[x]]
    IN Pop(cleared, "last_usage")

reset_all_callback(d) ==
    LET cleared == [x \in DOMAIN d |->
                      IF x \in FormKeySet \cup {"travel_plan"} THEN <<>> ELSE d[x]]
    IN Pop(Pop(cleared, "last_model_used"), "last_usage")

FALLBACK_MODELS == <<"gpt-4o", "gpt-4o-mini", "gpt-4-turbo">>

N == Len(FALLBACK_MODELS)

(***************************************************************************)
(* Provider responses.  A value is [type, val]; a chat completion is       *)
(* [choices, usage]; a provider answer is a completion or a raised error.  *)
(***************************************************************************)
Str(s) == [type |-> "str", val |-> s]

List(ps) == [type |-> "list", val |-> ps]

Dict(t) == [type |-> "dict", val |-> t]

NoneValue == [type |-> "NoneType", val |-> <<>>]

Completion(content, usage) ==
    [choices |-> <<[message |-> [content |-> content]]>>, usage |-> usage]

NoChoices == [choices |-> <<>>, usage |-> None]

Answer(comp) == [raised |-> FALSE, comp |-> comp]

APIError == [raised |-> TRUE, comp |-> NoChoices]

\* the parts of a list content that carry text (lines 152-157)
RECURSIVE text_parts(_)
text_parts(ps) ==
    IF ps = <<>> THEN <<>>
    ELSE LET p == Head(ps)
         IN IF p.type = "str" THEN <<p.val>> \o text_parts(Tail(ps))
            ELSE IF p.type = "dict" /\ p.val.type = "str"
                 THEN <<p.val.val>> \o text_parts(Tail(ps))
            ELSE text_parts(Tail(ps))

_extract_text_from_chat_completion(comp) ==
    IF comp.choices = <<>> THEN <<>>          \* IndexError, swallowed
    ELSE LET txt == comp.choices[1].message.content
         IN IF txt.type = "str" /\ strip(txt.val) # <<>> THEN txt.val
            ELSE IF txt.type = "list"
                 THEN LET joined == strip(join(<<NL>>, text_parts(txt.val)))
                      IN IF joined # <<>> THEN joined ELSE <<>>
            ELSE <<>>

\* The answers the provider is taken to give.
Answers ==
    { APIError,
      Answer(NoChoices),
      Answer(Completion(NoneValue, None)),
      Answer(Completion(Str(<<SP, NL>>), "usage-2")),
      Answer(Completion(Str(<<SP, "a", SP>>), "usage-3")),
      Answer(Completion(List(<<Str(<<SP, "a">>), Dict(NoneValue), Dict(Str(<<"b", SP>>))>>), None)),
      Answer(Completion(List(<<Dict(NoneValue), Str(<<SP>>)>>), "usage-4")) }

FormValues == {<<>>, <<"P">>}

NoError == [type |-> "None", model |-> "None"]

NoException == [type |-> "None", msg |-> "", last |-> NoError]

NoCall == [k \in 1..N |-> APIError]

(***************************************************************************)
(* Initial state: the script has run once with nothing submitted.          *)
(***************************************************************************)
MdIdle ==
    /\ md_text = <<>>
    /\ lines = <<>>
    /\ i = 0
    /\ flow = <<>>
    /\ mdpc = "done"

Init ==
    /\ session = init_form_state
    /\ pc = "idle"
    /\ idx = 1
    /\ last_error = NoError
    /\ retval = <<>>
    /\ outcomes = NoCall
    /\ requests = <<>>
    /\ inflight = {}
    /\ uncaught = NoException
    /\ screen = "info_fill_in"
    /\ displayed = <<>>
    /\ download = "none"
    /\ diag = "none"
    /\ plan_source = None
    /\ MdIdle

\* the branch of the script taken when the form was not submitted (lines 372-377)
NotSubmittedView(d) ==
    IF "travel_plan" \in DOMAIN d /\ strip(d["travel_plan"]) # <<>>
    THEN "last_plan" ELSE "info_fill_in"

(***************************************************************************)
(* The form is submitted: its widget values are committed to the session   *)
(* and the main action starts (lines 279-306, 327-338).                    *)
(***************************************************************************)
Submit ==
    /\ pc = "idle"
    /\ \E dest \in FormValues, days \in FormValues,
          interests \in FormValues, guard \in FormValues :
         /\ session' = [session EXCEPT !["destination"] = dest,
                                       !["num_days"] = days,
                                       !["special_interests"] = interests,
                                       !["guardrails"] = guard]
         /\ IF ~(dest # <<>> /\ days # <<>>)
            THEN /\ pc' = "idle"
                 /\ screen' = "warning_missing"
                 /\ outcomes' = NoCall
            ELSE /\ pc' = "request"
                 /\ screen' = "spinner"
                 /\ \E o \in [1..N -> Answers] : outcomes' = o
    /\ idx' = 1
    /\ last_error' = NoError
    /\ retval' = <<>>
    /\ requests' = <<>>
    /\ inflight' = {}
    /\ uncaught' = NoException
    /\ displayed' = <<>>
    /\ download' = "none"
    /\ diag' = "none"
    /\ UNCHANGED plan_source
    /\ UNCHANGED mdVars

(***************************************************************************)
(* get_travel_plan_markdown (lines 174-193).                               *)
(***************************************************************************)
\* client.chat.completions.create is called for the current candidate
IssueRequest ==
    /\ pc = "request"
    /\ idx <= N
    /\ requests' = Append(requests, FALLBACK_MODELS[idx])
    /\ inflight' = inflight \cup {FALLBACK_MODELS[idx]}
    /\ pc' = "wait"
    /\ UNCHANGED <<session, idx, last_error, retval, outcomes, uncaught, screen,
                   displayed, download, diag>>
    /\ UNCHANGED plan_source
    /\ UNCHANGED mdVars

\* the failure recorded for the current candidate (lines 188, 190)
AttemptError(k) ==
    IF outcomes[k].raised
    THEN [type |-> "APIError", model |-> FALLBACK_MODELS[k]]
    ELSE [type |-> "RuntimeError", model |-> FALLBACK_MODELS[k]]

\* ResponseSuccess, recording the head of the list instead of the model used
ResponseSuccess_first_model ==
    /\ pc = "wait"
    /\ ~outcomes[idx].raised
    /\ LET comp == outcomes[idx].comp
           text == _extract_text_from_chat_completion(comp)
       IN /\ strip(text) # <<>>
          /\ session' = Put(Put(session, "last_model_used", FALLBACK_MODELS[1]),
                            "last_usage", comp.usage)
          /\ retval' = text
    /\ inflight' = inflight \ {FALLBACK_MODELS[idx]}
    /\ pc' = "returned"
    /\ UNCHANGED <<idx, last_error, outcomes, requests, uncaught, screen,
                   displayed, download, diag>>
    /\ UNCHANGED plan_source
    /\ UNCHANGED mdVars

\* the call returns or raises; text is extracted; non-empty text is returned
ResponseSuccess ==
    /\ pc = "wait"
    /\ ~outcomes[idx].raised
    /\ LET comp == outcomes[idx].comp
           text == _extract_text_from_chat_completion(comp)
       IN /\ strip(text) # <<>>
          /\ session' = Put(Put(session, "last_model_used", FALLBACK_MODELS[idx]),
                            "last_usage", comp.usage)
          /\ retval' = text
    /\ inflight' = inflight \ {FALLBACK_MODELS[idx]}
    /\ pc' = "returned"
    /\ UNCHANGED <<idx, last_error, outcomes, requests, uncaught, screen,
                   displayed, download, diag>>
    /\ UNCHANGED plan_source
    /\ UNCHANGED mdVars

AttemptFailed ==
    \/ outcomes[idx].raised
    \/ strip(_extract_text_from_chat_completion(outcomes[idx].comp)) = <<>>

\* ResponseFailure, trying the same candidate again
ResponseFailure_retry ==
    /\ pc = "wait"
    /\ AttemptFailed
    /\ idx < N
    /\ last_error' = AttemptError(idx)
    /\ idx' = idx
    /\ inflight' = inflight \ {FALLBACK_MODELS[idx]}
    /\ pc' = "request"
    /\ UNCHANGED <<session, retval, outcomes, requests, uncaught, screen,
                   displayed, download, diag>>
    /\ UNCHANGED plan_source
    /\ UNCHANGED mdVars

\* ResponseFailure, dropping the recorded model when an attempt fails
ResponseFailure_forgets ==
    /\ pc = "wait"
    /\ AttemptFailed
    /\ idx < N
    /\ last_error' = AttemptError(idx)
    /\ idx' = idx + 1
    /\ inflight' = inflight \ {FALLBACK_MODELS[idx]}
    /\ pc' = "request"
    /\ session' = Pop(session, "last_model_used")
    /\ UNCHANGED <<retval, outcomes, requests, uncaught, screen,
                   displayed, download, diag>>
    /\ UNCHANGED plan_source
    /\ UNCHANGED mdVars

\* the attempt failed and another candidate is left
ResponseFailure ==
    /\ pc = "wait"
    /\ AttemptFailed
    /\ idx < N
    /\ last_error' = AttemptError(idx)
    /\ idx' = idx + 1
    /\ inflight' = inflight \ {FALLBACK_MODELS[idx]}
    /\ pc' = "request"
    /\ UNCHANGED <<session, retval, outcomes, requests, uncaught, screen,
                   displayed, download, diag>>
    /\ UNCHANGED plan_source
    /\ UNCHANGED mdVars

\* Exhausted, returning an empty string instead of raising
Exhausted_returns_empty ==
    /\ pc = "wait"
    /\ AttemptFailed
    /\ idx = N
    /\ last_error' = AttemptError(idx)
    /\ idx' = idx + 1
    /\ inflight' = inflight \ {FALLBACK_MODELS[idx]}
    /\ retval' = <<>>
    /\ pc' = "returned"
    /\ UNCHANGED <<session, uncaught, screen, outcomes, requests, displayed,
                   download, diag>>
    /\ UNCHANGED plan_source
    /\ UNCHANGED mdVars

\* the last attempt failed: RuntimeError leaves the function and, uncaught by
\* the main action (line 338), the script run
Exhausted ==
    /\ pc = "wait"
    /\ AttemptFailed
    /\ idx = N
    /\ last_error' = AttemptError(idx)
    /\ idx' = idx + 1
    /\ inflight' = inflight \ {FALLBACK_MODELS[idx]}
    /\ uncaught' = [type |-> "RuntimeError", msg |-> "All model attempts failed",
                    last |-> AttemptError(idx)]
    /\ screen' = "exception"
    /\ pc' = "idle"
    /\ UNCHANGED <<session, retval, outcomes, requests, displayed, download, diag>>
    /\ UNCHANGED plan_source
    /\ UNCHANGED mdVars

(***************************************************************************)
(* The main action after the call (lines 338-371).                         *)
(***************************************************************************)
MainDisplay ==
    /\ pc = "returned"
    /\ session' = Put(session, "travel_plan", retval)
    /\ IF strip(retval) # <<>>
       THEN /\ screen' = "plan_generated"
            /\ displayed' = retval
            /\ pc' = "pdf"
       ELSE /\ screen' = "empty_response"
            /\ displayed' = <<>>
            /\ pc' = "idle"
    /\ UNCHANGED <<idx, last_error, retval, outcomes, requests, inflight, uncaught,
                   download, diag>>
    /\ plan_source' = FALLBACK_MODELS[idx]
    /\ UNCHANGED mdVars

\* PdfExport without the try/except: a build failure leaves the script run
PdfExport_propagates ==
    /\ pc = "pdf"
    /\ \E built \in BOOLEAN :
         /\ download' = IF built THEN "offered" ELSE "pdf_error"
         /\ uncaught' = IF built THEN uncaught
                        ELSE [type |-> "OSError", msg |-> "build", last |-> NoError]
         /\ screen' = IF built THEN screen ELSE "exception"
         /\ displayed' = IF built THEN displayed ELSE <<>>
    /\ pc' = "idle"
    /\ UNCHANGED <<session, idx, last_error, retval, outcomes, requests, inflight,
                   diag>>
    /\ UNCHANGED plan_source
    /\ UNCHANGED mdVars

\* write_pdf and the download button inside try/except (lines 353-368)
PdfExport ==
    /\ pc = "pdf"
    /\ \E built \in BOOLEAN :
         download' = IF built THEN "offered" ELSE "pdf_error"
    /\ pc' = "idle"
    /\ UNCHANGED <<session, idx, last_error, retval, outcomes, requests, inflight,
                   uncaught, screen, displayed, diag>>
    /\ UNCHANGED plan_source
    /\ UNCHANGED mdVars

(***************************************************************************)
(* Script runs that are not a submission.                                  *)
(***************************************************************************)
\* the Reset button (lines 382-389): rendered only by a run that reached the end
ResetClick ==
    /\ pc = "idle"
    /\ uncaught = NoException
    /\ session' = reset_all_callback(session)
    /\ screen' = NotSubmittedView(reset_all_callback(session))
    /\ displayed' = <<>>
    /\ download' = "none"
    /\ diag' = "none"
    /\ idx' = 1
    /\ last_error' = NoError
    /\ retval' = <<>>
    /\ outcomes' = NoCall
    /\ requests' = <<>>
    /\ UNCHANGED <<pc, inflight, uncaught>>
    /\ plan_source' = None
    /\ UNCHANGED mdVars

\* the diagnostics self-test (lines 311-322)
SelfTest ==
    /\ pc = "idle"
    /\ \E a \in {APIError, Answer(Completion(Str(<<"R">>), None))} :
         diag' = IF a.raised THEN "failed" ELSE "success"
    /\ screen' = NotSubmittedView(session)
    /\ displayed' = IF NotSubmittedView(session) = "last_plan"
                    THEN session["travel_plan"] ELSE <<>>
    /\ download' = "none"
    /\ uncaught' = NoException
    /\ idx' = 1
    /\ last_error' = NoError
    /\ retval' = <<>>
    /\ outcomes' = NoCall
    /\ requests' = <<>>
    /\ UNCHANGED <<session, pc, inflight>>
    /\ UNCHANGED plan_source
    /\ UNCHANGED mdVars

Next ==
    \/ Submit
    \/ IssueRequest
    \/ ResponseSuccess
    \/ ResponseFailure
    \/ Exhausted
    \/ MainDisplay
    \/ PdfExport
    \/ ResetClick
    \/ SelfTest

Spec == Init /\ [][Next]_vars

(***************************************************************************)
(* Properties of the generation cycle, checked under Spec.                 *)
(***************************************************************************)
\* candidate k answers with text that is non-empty after trimming
yields_text(k) ==
    /\ ~outcomes[k].raised
    /\ strip(_extract_text_from_chat_completion(outcomes[k].comp)) # <<>>

\* the call of get_travel_plan_markdown of this cycle is over
call_over == requests # <<>> /\ pc \notin {"request", "wait"}

\* C1: whenever some candidate yields non-empty content, the call does not
\* fail, and when it returns it returns the text of the first candidate in
\* priority order that yields non-empty content and has recorded that
\* candidate as last_model_used, whatever the earlier candidates did.
C1_first_success_wins ==
    /\ (\E k \in 1..N : yields_text(k)) => uncaught = NoException
    /\ pc = "returned" =>
         \E k \in 1..N :
            /\ yields_text(k)
            /\ \A j \in 1..(k - 1) : ~yields_text(j)
            /\ retval = _extract_text_from_chat_completion(outcomes[k].comp)
            /\ "last_model_used" \in DOMAIN session
            /\ session["last_model_used"] = FALLBACK_MODELS[k]

\* the call returned the third candidate's text after an error and an empty answer
C1_witness ==
    /\ pc = "returned"
    /\ outcomes[1].raised
    /\ ~outcomes[2].raised
    /\ session["last_model_used"] = FALLBACK_MODELS[3]
    /\ retval = <<"a", NL, "b">>

\* C2: when every candidate raises or answers with empty or whitespace
\* content, the finished call has returned no text but raised RuntimeError
\* "All model attempts failed", and an exception leaves the call only when
\* every candidate was requested and none yielded text.
C2_all_fail_raises ==
    /\ (call_over /\ \A k \in 1..N : ~yields_text(k)) =>
          /\ uncaught.type = "RuntimeError"
          /\ uncaught.msg = "All model attempts failed"
          /\ pc = "idle"
    /\ uncaught # NoException =>
          /\ requests = FALLBACK_MODELS
          /\ \A k \in 1..N : ~yields_text(k)

\* exhaustion after an error, a whitespace answer and an answer without text parts
C2_witness ==
    /\ uncaught.type = "RuntimeError"
    /\ outcomes[1].raised
    /\ ~outcomes[2].raised
    /\ ~outcomes[3].raised
    /\ uncaught.last = [type |-> "RuntimeError", model |-> FALLBACK_MODELS[3]]

\* C6 (as claimed): a cycle that ends with all models exhausted shows the
\* "The model returned an empty response" branch of the main action.
C6_exhaustion_shows_empty_response ==
    uncaught.type = "RuntimeError" => screen = "empty_response"

\* C7: a failing write_pdf after a successful generation is caught: no
\* exception leaves the run, the session (travel_plan and last_model_used
\* included) is unchanged, the plan stays displayed, and only the download
\* button is missing.
C7_pdf_failure_keeps_plan ==
    [][(pc = "pdf" /\ download' = "pdf_error") =>
          /\ session' = session
          /\ session'["travel_plan"] = retval
          /\ "last_model_used" \in DOMAIN session'
          /\ displayed' = session'["travel_plan"]
          /\ displayed' = displayed
          /\ screen' = "plan_generated"
          /\ uncaught' = NoException
          /\ pc' = "idle"]_vars

\* the PDF build failed for a displayed plan
C7_witness ==
    /\ download = "pdf_error"
    /\ pc = "idle"
    /\ displayed = <<SP, "a", SP>>

\* C8 (as claimed): no step of get_travel_plan_markdown changes the session.
C8_call_leaves_session_unchanged ==
    [][(pc \in {"request", "wait"}) => session' = session]_vars

\* C8 (amended): a step of get_travel_plan_markdown changes nothing of the
\* session but the keys last_model_used and last_usage, and those only in the
\* step that returns text; a failing attempt and the exhaustion change nothing.
C8_call_writes_only_model_and_usage ==
    [][(pc \in {"request", "wait"}) =>
          /\ \A key \in (DOMAIN session \cup DOMAIN session')
                          \ {"last_model_used", "last_usage"} :
                /\ key \in DOMAIN session
                /\ key \in DOMAIN session'
                /\ session'[key] = session[key]
          /\ pc' # "returned" => session' = session
          /\ UNCHANGED <<displayed, download, diag>>]_vars

\* the call has returned with the model recorded while a plan of an earlier
\* cycle, produced by another model, is still stored
C8_witness ==
    /\ pc = "returned"
    /\ session["last_model_used"] = FALLBACK_MODELS[2]
    /\ session["travel_plan"] # <<>>
    /\ session["travel_plan"] # retval
    /\ plan_source = FALLBACK_MODELS[1]

\* C9: within one call the requests go out in priority order, one per
\* candidate, at most one is in flight, a candidate is requested only after
\* every earlier one has ended in an error or in empty content, and none is
\* requested after a candidate that yielded text.
C9_sequential_requests ==
    /\ Len(requests) <= N
    /\ \A k \in 1..Len(requests) : requests[k] = FALLBACK_MODELS[k]
    /\ Cardinality(inflight) <= 1
    /\ inflight # {} => requests # <<>> /\ inflight = {requests[Len(requests)]}
    /\ \A k \in 1..(Len(requests) - 1) : ~yields_text(k)
    /\ pc \in {"returned", "pdf"} => yields_text(Len(requests))

\* the third request is in flight
C9_witness ==
    /\ pc = "wait"
    /\ Len(requests) = 3
    /\ inflight = {FALLBACK_MODELS[3]}

plan_and_model(d) == <<d["travel_plan"], Get(d, "last_model_used", None)>>

\* C10: between script runs the stored travel_plan is non-empty exactly when
\* last_model_used is present, and then last_model_used is the model that
\* produced the stored plan; a rejected submission and every step of a cycle
\* that fails leave both unchanged; a reset clears both together with the
\* four form fields and last_usage.
C10_plan_and_model_agree ==
    /\ [](pc = "idle" =>
            /\ session["travel_plan"] # <<>> <=> "last_model_used" \in DOMAIN session
            /\ "last_model_used" \in DOMAIN session =>
                  session["last_model_used"] = plan_source)
    /\ [][(screen' = "warning_missing" \/ pc' = "request" \/ screen' = "exception")
            => plan_and_model(session') = plan_and_model(session)]_vars
    /\ [][ResetClick =>
            /\ \A key \in FormKeySet \cup {"travel_plan"} : session'[key] = <<>>
            /\ DOMAIN session' = FormKeySet \cup {"travel_plan"}]_vars

\* a cycle failed with all models exhausted while a plan of an earlier cycle
\* is stored
C10_witness ==
    /\ pc = "idle"
    /\ uncaught.type = "RuntimeError"
    /\ session["travel_plan"] # <<>>
    /\ session["last_model_used"] = FALLBACK_MODELS[3]

(***************************************************************************)
(* markdown_to_flowables (lines 198-243).                                  *)
(***************************************************************************)
BULLET == "U+2022"

Spacer(w, h) == [kind |-> "Spacer", text |-> <<>>, items |-> <<>>, height |-> h]

\* Paragraph(text, style), the kind being the style
Paragraph(text, style) == [kind |-> style, text |-> text, items |-> <<>>, height |-> 0]

ListFlowable(items) ==
    [kind |-> "ListFlowable", text |-> <<>>, items |-> items, height |-> 0]

\* str.startswith(("-", "*", "U+2022")) on the left-stripped line
is_bullet_line(l) ==
    LET s == lstrip(l) IN s # <<>> /\ s[1] \in {"-", "*", BULLET}

\* the inner loop leaving after its first item
bullet_run_end_single(ls, k) == k + 1

\* the index at which the inner while loop of lines 232-235 stops
RECURSIVE bullet_run_end(_, _)
bullet_run_end(ls, k) ==
    IF k < Len(ls) /\ is_bullet_line(ls[k + 1]) THEN bullet_run_end(ls, k + 1) ELSE k

\* lines[k].lstrip()[1:].strip()
bullet_text(l) == strip(slice_from(lstrip(l), 1))

\* the line the loop body looks at: lines[i].rstrip()
line == rstrip(lines[i + 1])

MdStart ==
    /\ mdpc = "start"
    /\ lines' = splitlines(md_text)
    /\ i' = 0
    /\ flow' = <<>>
    /\ mdpc' = "loop"
    /\ UNCHANGED md_text
    /\ UNCHANGED genVars

MdBlank ==
    /\ mdpc = "loop"
    /\ i < Len(lines)
    /\ strip(line) = <<>>
    /\ flow' = Append(flow, Spacer(1, 6))
    /\ i' = i + 1
    /\ UNCHANGED <<md_text, lines, mdpc>>
    /\ UNCHANGED genVars

MdHeading2 ==
    /\ mdpc = "loop"
    /\ i < Len(lines)
    /\ strip(line) # <<>>
    /\ startswith(line, <<"#", "#", SP>>)
    /\ flow' = Append(flow, Paragraph(strip(slice_from(line, 3)), "H2"))
    /\ i' = i + 1
    /\ UNCHANGED <<md_text, lines, mdpc>>
    /\ UNCHANGED genVars

MdHeading3 ==
    /\ mdpc = "loop"
    /\ i < Len(lines)
    /\ strip(line) # <<>>
    /\ ~startswith(line, <<"#", "#", SP>>)
    /\ startswith(line, <<"#", "#", "#", SP>>)
    /\ flow' = Append(flow, Paragraph(strip(slice_from(line, 4)), "H3"))
    /\ i' = i + 1
    /\ UNCHANGED <<md_text, lines, mdpc>>
    /\ UNCHANGED genVars

\* MdBullets, resuming one line after the line that ended the list
MdBullets_skips_next ==
    /\ mdpc = "loop"
    /\ i < Len(lines)
    /\ strip(line) # <<>>
    /\ ~startswith(line, <<"#", "#", SP>>)
    /\ ~startswith(line, <<"#", "#", "#", SP>>)
    /\ is_bullet_line(line)
    /\ LET stop == bullet_run_end(lines, i)
           items == [j \in 1..(stop - i) |-> bullet_text(lines[i + j])]
       IN /\ flow' = flow \o <<ListFlowable(items), Spacer(1, 4)>>
          /\ i' = stop + 1
    /\ UNCHANGED <<md_text, lines, mdpc>>
    /\ UNCHANGED genVars

MdBullets ==
    /\ mdpc = "loop"
    /\ i < Len(lines)
    /\ strip(line) # <<>>
    /\ ~startswith(line, <<"#", "#", SP>>)
    /\ ~startswith(line, <<"#", "#", "#", SP>>)
    /\ is_bullet_line(line)
    /\ LET stop == bullet_run_end(lines, i)
           items == [j \in 1..(stop - i) |-> bullet_text(lines[i + j])]
       IN /\ flow' = flow \o <<ListFlowable(items), Spacer(1, 4)>>
          /\ i' = stop
    /\ UNCHANGED <<md_text, lines, mdpc>>
    /\ UNCHANGED genVars

MdParagraph ==
    /\ mdpc = "loop"
    /\ i < Len(lines)
    /\ strip(line) # <<>>
    /\ ~startswith(line, <<"#", "#", SP>>)
    /\ ~startswith(line, <<"#", "#", "#", SP>>)
    /\ ~is_bullet_line(line)
    /\ flow' = Append(flow, Paragraph(line, "BodyText"))
    /\ i' = i + 1
    /\ UNCHANGED <<md_text, lines, mdpc>>
    /\ UNCHANGED genVars

MdReturn ==
    /\ mdpc = "loop"
    /\ i >= Len(lines)
    /\ mdpc' = "done"
    /\ UNCHANGED <<md_text, lines, i, flow>>
    /\ UNCHANGED genVars

\* The inputs: texts of up to MaxLines lines drawn from MdLines.
MaxLines == 3

MdLines ==
    { <<>>,
      <<SP>>,
      <<"#", "#", SP, "T">>,
      <<"#", "#", "#", SP, "D", SP>>,
      <<"#", "#", SP>>,
      <<"#", "#", "#", SP, SP>>,
      <<SP, "#", "#", SP, "U">>,
      <<"-", SP, "A">>,
      <<SP, "*", SP, "B", SP>>,
      <<BULLET, "C">>,
      <<"-">>,
      <<"*", "*", "b">>,
      <<"p">>,
      <<SP, "q", SP>> }

MdTexts ==
    { join(<<NL>>, ls) : ls \in UNION {[1..n -> MdLines] : n \in 0..MaxLines} }

InitMd ==
    /\ session = init_form_state
    /\ pc = "idle"
    /\ idx = 1
    /\ last_error = NoError
    /\ retval = <<>>
    /\ outcomes = NoCall
    /\ requests = <<>>
    /\ inflight = {}
    /\ uncaught = NoException
    /\ screen = "info_fill_in"
    /\ displayed = <<>>
    /\ download = "none"
    /\ diag = "none"
    /\ plan_source = None
    /\ md_text \in MdTexts
    /\ lines = <<>>
    /\ i = 0
    /\ flow = <<>>
    /\ mdpc = "start"

NextMd ==
    \/ MdStart
    \/ MdBlank
    \/ MdHeading2
    \/ MdHeading3
    \/ MdBullets
    \/ MdParagraph
    \/ MdReturn

SpecMd == InitMd /\ [][NextMd]_vars

(***************************************************************************)
(* Properties of markdown_to_flowables, checked under SpecMd.              *)
(***************************************************************************)
\* the texts a reader sees, in emission order: one per heading, paragraph
\* and list item, none for a spacer
RECURSIVE visible_texts(_)
visible_texts(f) ==
    IF f = <<>> THEN <<>>
    ELSE LET e == Head(f)
         IN (IF e.kind = "Spacer" THEN <<>>
             ELSE IF e.kind = "ListFlowable" THEN e.items
             ELSE <<e.text>>) \o visible_texts(Tail(f))

\* the lines among the first n that are not blank, in order
RECURSIVE non_blank(_, _)
non_blank(ls, n) ==
    IF n = 0 THEN <<>>
    ELSE non_blank(ls, n - 1) \o (IF strip(ls[n]) = <<>> THEN <<>> ELSE <<ls[n]>>)

\* what a line says: the trimmed line without its heading or bullet marker
textual_content(l) ==
    LET s == strip(l)
    IN IF startswith(s, <<"#", "#", "#", SP>>) THEN strip(slice_from(s, 4))
       ELSE IF startswith(s, <<"#", "#", SP>>) THEN strip(slice_from(s, 3))
       ELSE IF s # <<>> /\ s[1] \in {"-", "*", BULLET} THEN strip(slice_from(s, 1))
       ELSE s

contains(t, s) ==
    \E k \in 0..(Len(t) - Len(s)) : SubSeq(t, k + 1, k + Len(s)) = s

count_kind(f, kind, h) ==
    Cardinality({k \in 1..Len(f) : f[k].kind = kind /\ f[k].height = h})

\* C3: the parse is total and order-preserving: while lines are left a step
\* is possible, it ends with every line consumed, and at every point the
\* visible texts emitted so far are, one for one and in input order, texts
\* containing the trimmed textual content of the non-blank lines consumed so
\* far, the blank lines consumed having given one spacer each.
C3_total_order_preserving ==
    mdpc \in {"loop", "done"} =>
       LET vt == visible_texts(flow)
           nb == non_blank(lines, i)
       IN /\ i <= Len(lines)
          /\ mdpc = "done" => i = Len(lines)
          /\ mdpc = "loop" => ENABLED NextMd
          /\ Len(vt) = Len(nb)
          /\ \A k \in 1..Len(nb) : contains(vt[k], textual_content(nb[k]))
          /\ count_kind(flow, "Spacer", 6) = i - Len(nb)

\* a heading, a paragraph with leading white space and a bullet were parsed
C3_witness ==
    /\ mdpc = "done"
    /\ lines = << <<"#", "#", SP, "T">>, <<SP, "q", SP>>, <<"-", SP, "A">> >>
    /\ visible_texts(flow) = << <<"T">>, <<SP, "q">>, <<"A">> >>

\* the item lists of the maximal runs of bullet lines, in order
RECURSIVE bullet_runs(_)
bullet_runs(ls) ==
    IF ls = <<>> THEN <<>>
    ELSE IF ~is_bullet_line(ls[1]) THEN bullet_runs(Tail(ls))
    ELSE LET n == CHOOSE m \in 1..Len(ls) :
                     /\ \A j \in 1..m : is_bullet_line(ls[j])
                     /\ m = Len(ls) \/ ~is_bullet_line(ls[m + 1])
         IN <<[j \in 1..n |-> strip(Tail(lstrip(ls[j])))]>>
               \o bullet_runs(SubSeq(ls, n + 1, Len(ls)))

RECURSIVE list_items(_)
list_items(f) ==
    IF f = <<>> THEN <<>>
    ELSE (IF Head(f).kind = "ListFlowable" THEN <<Head(f).items>> ELSE <<>>)
            \o list_items(Tail(f))

\* C4: the finished parse holds exactly one list per maximal run of bullet
\* lines, in order, its items being the lines of the run without marker and
\* surrounding white space (a run of one line gives a list of one item);
\* each list is directly followed by a spacer of height 4, and no line of a
\* run is emitted a second time as a paragraph or heading.
C4_one_list_per_run ==
    mdpc = "done" =>
       /\ list_items(flow) = bullet_runs(lines)
       /\ \A k \in 1..Len(flow) :
             flow[k].kind = "ListFlowable" =>
                k < Len(flow) /\ flow[k + 1] = Spacer(1, 4)
       /\ count_kind(flow, "Spacer", 4) = Len(bullet_runs(lines))
       /\ Cardinality({k \in 1..Len(flow) : flow[k].kind \in {"H2", "H3", "BodyText"}})
             = Cardinality({k \in 1..Len(lines) :
                               strip(lines[k]) # <<>> /\ ~is_bullet_line(lines[k])})

\* three bullet lines with the three markers became one list of three items
C4_witness ==
    /\ mdpc = "done"
    /\ flow = <<ListFlowable(<< <<"A">>, <<"B">>, <<"C">> >>), Spacer(1, 4)>>

\* the headings the heading lines call for, in order
RECURSIVE heading_lines(_)
heading_lines(ls) ==
    IF ls = <<>> THEN <<>>
    ELSE (IF startswith(ls[1], <<"#", "#", "#", SP>>)
          THEN <<Paragraph(strip(slice_from(ls[1], 4)), "H3")>>
          ELSE IF startswith(ls[1], <<"#", "#", SP>>)
          THEN <<Paragraph(strip(slice_from(ls[1], 3)), "H2")>>
          ELSE <<>>) \o heading_lines(Tail(ls))

RECURSIVE headings(_)
headings(f) ==
    IF f = <<>> THEN <<>>
    ELSE (IF Head(f).kind \in {"H2", "H3"} THEN <<Head(f)>> ELSE <<>>)
            \o headings(Tail(f))

\* C5 (as claimed): every line that starts with "## " gives one Heading2 and
\* every line that starts with "### " one Heading3, each with the rest of
\* the line trimmed as its text, and no other line gives a heading.
C5_heading_lines_give_headings ==
    mdpc = "done" => headings(flow) = heading_lines(lines)

====
